---------------------------- MODULE Spec2Model ----------------------------
(***************************************************************************)
(* MML compiler of atinysynth-pic (src/mml.c): the scanner loop of         *)
(* mml_parse, the per-channel parse state table, the duration quantizer    *)
(* and the frame emitter, as a state machine.  One action per iteration of *)
(* the scanner loop; mml_compile's entry and return are part of the first  *)
(* and the last action of a call.                                          *)
(*                                                                         *)
(* Characters are their ASCII codes.  The text is a sequence of non-NUL    *)
(* bytes, its terminating NUL is the byte at Len(content) + 1.  C doubles  *)
(* are modelled as exact rationals [n, d] (d = 0 is +infinity).            *)
(***************************************************************************)
EXTENDS Integers, Sequences, FiniteSets, TLC

(***************************************************************************)
(* Bounds of the model                                                     *)
(***************************************************************************)
MaxLen == 3
MaxJoinLen == 5
MaxOctLen == 6
MaxVolLen == 4
MaxChanLen == 4
MaxShortLen == 5
MaxFlatLen == 3
MaxDotLen == 5
MaxTokens == 3
MaxCompiles == 2

(***************************************************************************)
(* Characters                                                              *)
(***************************************************************************)
Asc(s) ==
    CASE s = "\n" -> 10 [] s = "\r" -> 13 [] s = " " -> 32 [] s = "#" -> 35
      [] s = "&" -> 38 [] s = "+" -> 43 [] s = "-" -> 45 [] s = "." -> 46
      [] s = "0" -> 48 [] s = "1" -> 49 [] s = "2" -> 50 [] s = "3" -> 51
      [] s = "4" -> 52 [] s = "5" -> 53 [] s = "6" -> 54 [] s = "7" -> 55
      [] s = "8" -> 56 [] s = "9" -> 57 [] s = ";" -> 59 [] s = "<" -> 60
      [] s = ">" -> 62 [] s = "A" -> 65 [] s = "B" -> 66 [] s = "C" -> 67
      [] s = "Z" -> 90 [] s = "a" -> 97 [] s = "b" -> 98 [] s = "c" -> 99
      [] s = "d" -> 100 [] s = "e" -> 101 [] s = "f" -> 102 [] s = "g" -> 103
      [] s = "l" -> 108 [] s = "m" -> 109 [] s = "n" -> 110 [] s = "o" -> 111
      [] s = "p" -> 112 [] s = "r" -> 114 [] s = "s" -> 115 [] s = "t" -> 116
      [] s = "v" -> 118 [] s = "x" -> 120 [] s = "|" -> 124

NUL == 0

IsDigit(ch) == ch >= Asc("0") /\ ch <= Asc("9")
IsUpper(ch) == ch >= Asc("A") /\ ch <= Asc("Z")
\* isspace() of the C locale, as strtol uses it
IsSpace(ch) == ch = 32 \/ (ch >= 9 /\ ch <= 13)

(***************************************************************************)
(* Input texts: every sequence over an alphabet up to a length             *)
(***************************************************************************)
GeneralAlphabet ==
    {Asc("c"), Asc("p"), Asc("n"), Asc("o"), Asc("l"), Asc("t"), Asc("v"),
     Asc("m"), Asc("&"), Asc("#"), Asc("B"), Asc("0"), Asc("7"), Asc("."),
     Asc("-"), Asc("\n"), Asc("x")}
JoinAlphabet == {Asc("c"), Asc("p"), Asc("4"), Asc("8"), Asc("&")}
OctaveAlphabet == {Asc("o"), Asc("6"), Asc("<"), Asc(">")}
VolumeAlphabet == {Asc("v"), Asc("0"), Asc("1"), Asc("2"), Asc("8"), Asc("9"), Asc("-")}
ChannelAlphabet == {Asc("A"), Asc("B"), Asc("C"), Asc("\n"), Asc("c"), Asc("<")}
ShortAlphabet == {Asc("c"), Asc("9")}
DotAlphabet == {Asc("l"), Asc("c"), Asc("2"), Asc("4"), Asc(".")}
FlatAlphabet ==
    {Asc("a"), Asc("b"), Asc("c"), Asc("d"), Asc("e"), Asc("f"), Asc("g"),
     Asc("-"), Asc("+")}

\* the families of texts of a first call: an alphabet and a longest length
TextFamilies ==
    { [alphabet |-> GeneralAlphabet, max |-> MaxLen],
      [alphabet |-> JoinAlphabet, max |-> MaxJoinLen],
      [alphabet |-> OctaveAlphabet, max |-> MaxOctLen],
      [alphabet |-> VolumeAlphabet, max |-> MaxVolLen],
      [alphabet |-> ChannelAlphabet, max |-> MaxChanLen],
      [alphabet |-> ShortAlphabet, max |-> MaxShortLen],
      [alphabet |-> FlatAlphabet, max |-> MaxFlatLen],
      [alphabet |-> DotAlphabet, max |-> MaxDotLen] }

\* notes of a sixteenth and of a 99999th, and the texts made of up to
\* MaxTokens of them
ShortTokens ==
    { <<Asc("c"), Asc("1"), Asc("6")>>,
      <<Asc("c"), Asc("9"), Asc("9"), Asc("9"), Asc("9"), Asc("9")>> }

RECURSIVE Concat(_)
Concat(ts) == IF ts = <<>> THEN <<>> ELSE Head(ts) \o Concat(Tail(ts))

TokenTexts == {Concat(ts) : ts \in UNION {[1..k -> ShortTokens] : k \in 0..MaxTokens}}

\* texts of the calls after the first one
RepeatTexts ==
    { <<>>, <<Asc("c")>>, <<Asc("B"), Asc("c")>>, <<Asc("x")>>,
      <<Asc("c"), Asc("A")>>, <<Asc(">"), Asc("c")>>, <<Asc("#")>> }

VARIABLES
    content,             \* the text handed to mml_compile (without its NUL)
    beyond,              \* bytes behind the terminator that an over-read met
    cur,                 \* index of the byte the pointer `content` points at
    line, pos,           \* statics line, pos
    join,                \* local join of the current loop iteration
    mml_channel_states,  \* the channel table, entry i+1 is channel i
    mml_channel_count,   \* static mml_channel_count
    states_alloc,        \* records the block of mml_channel_states holds
    initialized,         \* channels whose init block ran in this call
    frame_map,           \* static frame_map
    error_handler,       \* static error_handler: "NULL" or "installed"
    reports,             \* messages the handler received during this call
    pc,                  \* "idle", "scan", "dispatch", "returned", "crashed"
    ret,                 \* value mml_compile returned
    map,                 \* the caller's *map: "unwritten" or a frame map
    calls                \* mml_compile calls made so far

vars == <<content, beyond, cur, line, pos, join, mml_channel_states,
          mml_channel_count, states_alloc, initialized, frame_map,
          error_handler, reports, pc, ret, map, calls>>


(***************************************************************************)
(* Constants of the synthesizer the compiler is built against              *)
(***************************************************************************)
\* sample rate the application declares (synth.h: extern synth_freq)
synth_freq == 16000
\* envelope time units of one frame duration step (adsr.h)
ADSR_TIME_UNITS == 32
UINT16_MAX == 65535

\* articulations in eighths: ARTICULATION_LEGATO, _NORMAL, _STACCATO
ARTICULATION_LEGATO == 8
ARTICULATION_NORMAL == 7
ARTICULATION_STACCATO == 5

(***************************************************************************)
(* Memory                                                                  *)
(***************************************************************************)
\* the byte at index i of the text buffer; bytes behind the terminator are
\* the ones an over-read has met (b), followed by a NUL
Mem(txt, b, i) ==
    IF i <= Len(txt) THEN txt[i]
    ELSE IF i = Len(txt) + 1 THEN NUL
    ELSE IF i - Len(txt) - 1 <= Len(b) THEN b[i - Len(txt) - 1]
    ELSE NUL

\* what lies behind the terminator when the comment loop runs over it and
\* does meet a line feed there
BeyondTails == { <<Asc("\n")>>, <<Asc("x"), Asc("\n"), Asc("c")>> }

\* content of a channel record that was allocated and never written: zero
\* filled memory, or what an earlier record left there
ZeroState ==
    [octave |-> 0, default_length |-> 0, default_length_dot |-> 0, tempo |-> 0,
     volume |-> 0, articulation |-> 0, isActive |-> 0,
     seconds |-> [n |-> 0, d |-> 1], time_units |-> 0]
StaleState ==
    [octave |-> 5, default_length |-> 8, default_length_dot |-> 0, tempo |-> 120,
     volume |-> 100, articulation |-> ARTICULATION_LEGATO, isActive |-> 1,
     seconds |-> [n |-> 1, d |-> 2], time_units |-> 8000]
GarbageStates == {ZeroState, StaleState}

\* content of a frame that was allocated and never written
GarbageFrames ==
    { [frequency |-> 0, volume |-> 0, adsr_time_scale_1 |-> 0, adsr_release_start |-> 0],
      [frequency |-> 440, volume |-> 63, adsr_time_scale_1 |-> 249, adsr_release_start |-> 27] }

(***************************************************************************)
(* Doubles as exact rationals [n, d], d > 0; d = 0 is +infinity            *)
(***************************************************************************)
RECURSIVE GCD(_, _)
GCD(a, b) == IF b = 0 THEN a ELSE GCD(b, a % b)

Abs(x) == IF x < 0 THEN -x ELSE x

Rat(n, d) ==
    IF d = 0 THEN [n |-> 1, d |-> 0]
    ELSE LET g == GCD(Abs(n), Abs(d))
             s == IF d < 0 THEN -1 ELSE 1
         IN  [n |-> s * (n \div g), d |-> s * (d \div g)]

IsInf(x) == x.d = 0

RatAdd(x, y) ==
    IF IsInf(x) \/ IsInf(y) THEN [n |-> 1, d |-> 0]
    ELSE LET g == GCD(x.d, y.d)
         IN  Rat(x.n * (y.d \div g) + y.n * (x.d \div g), x.d * (y.d \div g))

\* round(n / d) of C: to nearest, halves away from zero (d > 0)
Round(n, d) ==
    IF n >= 0 THEN n \div d + (IF 2 * (n % d) >= d THEN 1 ELSE 0)
    ELSE -((-n) \div d + (IF 2 * ((-n) % d) >= d THEN 1 ELSE 0))

\* round(x * k) for a rational x >= 0 and an integer k > 0
RoundTimes(x, k) ==
    LET q == x.n \div x.d
        r == x.n % x.d
        g == GCD(k, x.d)
    IN  q * k + Round(r * (k \div g), x.d \div g)

RECURSIVE Pow(_, _)
Pow(b, e) == IF e <= 0 THEN 1 ELSE b * Pow(b, e - 1)

ToU16(x) == x % 65536
ToU8(x) == x % 256

(***************************************************************************)
(* read_digit, read_number                                                 *)
(***************************************************************************)
\* read_digit at index i: the digit or 255; the pointer and pos advance by 1
read_digit(txt, b, i) ==
    LET code == Mem(txt, b, i)
    IN  IF code < Asc("0") \/ code > Asc("9") THEN 255 ELSE code - Asc("0")

RECURSIVE SkipSpaces(_, _, _)
SkipSpaces(txt, b, i) ==
    IF IsSpace(Mem(txt, b, i)) THEN SkipSpaces(txt, b, i + 1) ELSE i

RECURSIVE DigitsEnd(_, _, _)
DigitsEnd(txt, b, i) ==
    IF IsDigit(Mem(txt, b, i)) THEN DigitsEnd(txt, b, i + 1) ELSE i

\* value of the digits at indices from..to-1
RECURSIVE DigitsValue(_, _, _, _)
DigitsValue(txt, b, from, to) ==
    IF from >= to THEN 0
    ELSE DigitsValue(txt, b, from, to - 1) * 10 + (Mem(txt, b, to - 1) - Asc("0"))

\* strtol(str, &end, 10): white space, an optional sign, digits.  The texts
\* of the model hold numbers far below LONG_MAX and INT_MAX.
\* d is the index of the first digit, e the index behind the last one.
StrtolResult(txt, b, i, neg, d, e) ==
    IF e = d THEN [value |-> 0, end |-> i]
    ELSE [value |-> IF neg THEN -DigitsValue(txt, b, d, e) ELSE DigitsValue(txt, b, d, e),
          end |-> e]

\* s is the index behind the white space
StrtolSign(txt, b, i, s, signed) ==
    StrtolResult(txt, b, i, Mem(txt, b, s) = Asc("-"),
                 IF signed THEN s + 1 ELSE s,
                 DigitsEnd(txt, b, IF signed THEN s + 1 ELSE s))

StrtolAt(txt, b, i, s) ==
    StrtolSign(txt, b, i, s, Mem(txt, b, s) = Asc("-") \/ Mem(txt, b, s) = Asc("+"))

strtol(txt, b, i) == StrtolAt(txt, b, i, SkipSpaces(txt, b, i))

\* read_number at index i, r being what strtol answered: [ret, cur, adv];
\* -1 leaves the pointer and pos
ReadNumberResult(i, r) ==
    IF r.value = 0 \/ r.end = i THEN [ret |-> -1, cur |-> i, adv |-> 0]
    ELSE [ret |-> r.value, cur |-> r.end, adv |-> r.end - i]

read_number(txt, b, i) == ReadNumberResult(i, strtol(txt, b, i))

(***************************************************************************)
(* Frequencies                                                             *)
(***************************************************************************)
\* (int)(440.0 * pow(2, (noteCode - 33) / 12.0)) for noteCode -1 .. 132
FreqTable ==
    << 61,65,69,73,77,82,87,92,97,103,110,116,123,130,138,146,155,164,174,184,
       195,207,220,233,246,261,277,293,311,329,349,369,391,415,440,466,493,523,
       554,587,622,659,698,739,783,830,880,932,987,1046,1108,1174,1244,1318,
       1396,1479,1567,1661,1760,1864,1975,2093,2217,2349,2489,2637,2793,2959,
       3135,3322,3520,3729,3951,4186,4434,4698,4978,5274,5587,5919,6271,6644,
       7040,7458,7902,8372,8869,9397,9956,10548,11175,11839,12543,13289,14080,
       14917,15804,16744,17739,18794,19912,21096,22350,23679,25087,26579,28160,
       29834,31608,33488,35479,37589,39824,42192,44701,47359,50175,53159,56320,
       59668,63217,66976,70958,75178,79648,84384,89402,94718,100350,106318,
       112640,119337,126434,133952 >>

get_freq_from_code(noteCode) == FreqTable[noteCode + 2]

\* a % b of C for b > 0: the remainder has the sign of a
CRem(a, b) == IF a >= 0 THEN a % b ELSE -((-a) % b)

get_freq_from_note(note, sharp, octave) ==
    LET s0 == CRem(note - Asc("a") + 5, 7) * 2
        s1 == IF s0 > 4 THEN s0 - 1 ELSE s0
        semitone == IF sharp # 0 THEN s1 + 1 ELSE s1
    IN  get_freq_from_code(semitone + octave * 12)

(***************************************************************************)
(* Channel parse state table                                               *)
(***************************************************************************)
\* A table is [states, count, alloc, inited]: mml_channel_states,
\* mml_channel_count, the number of records its block holds, and the
\* channels whose init block ran.

\* the init block of enable_channel; isActive is left as it is
InitChannel(old) ==
    [octave |-> 4, default_length |-> 4, default_length_dot |-> 0, tempo |-> 120,
     volume |-> 63, articulation |-> ARTICULATION_NORMAL, isActive |-> old.isActive,
     seconds |-> [n |-> 0, d |-> 1], time_units |-> 0]

\* realloc of the table to n records: what the old block held is kept, the
\* rest is g
ReallocStates(T, n, g) ==
    [i \in 1..n |-> IF i <= T.alloc /\ i <= Len(T.states) THEN T.states[i] ELSE g]

enable_channel(T, channel, g) ==
    LET grown ==
            IF channel >= T.count
            THEN LET st == ReallocStates(T, channel + 1, g)
                 IN  [states |-> [st EXCEPT ![channel + 1] = InitChannel(st[channel + 1])],
                      count |-> channel + 1,
                      alloc |-> channel + 1,
                      inited |-> T.inited \cup {channel}]
            ELSE T
    IN  [grown EXCEPT !.states[channel + 1].isActive = 1]

reset_active_state(T, g) ==
    LET cleared ==
            [T EXCEPT !.states =
                [i \in 1..Len(T.states) |->
                    IF i >= 2 /\ i <= T.count
                    THEN [T.states[i] EXCEPT !.isActive = 0]
                    ELSE T.states[i]]]
    IN  enable_channel(cleared, 0, g)

\* the table the variables hold
Table ==
    [states |-> mml_channel_states, count |-> mml_channel_count,
     alloc |-> states_alloc, inited |-> initialized]

SetTable(T) ==
    /\ mml_channel_states' = T.states
    /\ mml_channel_count' = T.count
    /\ states_alloc' = T.alloc
    /\ initialized' = T.inited

\* channels a command or a note applies to
Active(T) == {i \in 0..(T.count - 1) : T.states[i + 1].isActive # 0}

(***************************************************************************)
(* Duration quantizer                                                      *)
(***************************************************************************)
\* outcomes of converting an infinite double to int, as the quantizer leaves
\* them in time_scale and time_units (saturation to INT_MIN or to INT_MAX)
UndefinedQuantizations ==
    { [time_scale |-> -67108864, time_units |-> -2147483647 - 1],
      [time_scale |-> 67108864, time_units |-> 2147483647] }

\* 60.0 * 4 / tempo / l with l = length / 1.5^dots
NoteSeconds(tempo, length, dots) ==
    IF tempo = 0 \/ length = 0 THEN [n |-> 1, d |-> 0]
    ELSE Rat(240 * Pow(3, dots), tempo * length * Pow(2, dots))

\* the end of get_adsr_time_scale: the accumulators are updated
Quantized(state, running, time_scale) ==
    [state |-> [state EXCEPT !.seconds = running,
                             !.time_units = state.time_units + time_scale * ADSR_TIME_UNITS],
     time_scale |-> time_scale]

\* get_adsr_time_scale once the running seconds are known
Quantize(state, running, u) ==
    IF IsInf(running)
    THEN [state |-> [state EXCEPT !.seconds = running, !.time_units = u.time_units],
          time_scale |-> u.time_scale]
    ELSE Quantized(state, running,
                   Round(RoundTimes(running, synth_freq) - state.time_units, ADSR_TIME_UNITS))

\* get_adsr_time_scale: [state, time_scale]
get_adsr_time_scale(state, length, dots, u) ==
    Quantize(state, RatAdd(state.seconds, NoteSeconds(state.tempo, length, dots)), u)

(***************************************************************************)
(* Frame emitter                                                           *)
(***************************************************************************)
\* init_stream_channel
EmptyList == [count |-> 0, cap |-> 16, frames |-> <<>>]

\* (uint8_t)round(ADSR_TIME_UNITS * articulation) - 1, stored in 8 bits
ReleaseStart(articulation) ==
    ToU8(ToU8(Round(ADSR_TIME_UNITS * articulation, 8)) - 1)

\* the block "New channel?" of add_channel_frame
GrowMap(fm, channel) ==
    IF channel >= fm.channel_count
    THEN [channel_count |-> channel + 1,
          channels |-> [i \in 1..(channel + 1) |->
                           IF i <= fm.channel_count THEN fm.channels[i] ELSE EmptyList]]
    ELSE fm

\* the realloc of a full list, and the slot of the new frame
GrowList(list, edit_last_duration, gf) ==
    IF edit_last_duration # 0 THEN list
    ELSE [count |-> list.count + 1,
          cap |-> IF list.count > 0 /\ list.count % 16 = 0 THEN list.count + 16
                  ELSE list.cap,
          frames |-> Append(list.frames, gf)]

\* the frame map with frame f at index i (from 0) of the list of a channel
PutFrame(fm, channel, list, i, f) ==
    [fm EXCEPT !.channels[channel + 1] = [list EXCEPT !.frames[i + 1] = f]]

\* "Calc duration and scale": frame holds the descriptor, ts is the duration
PackDuration(fm, channel, list, i, frame, ts, articulation) ==
    IF ts > UINT16_MAX
    THEN [map |-> PutFrame(fm, channel, list, i, frame), ok |-> 0,
          msg |-> "Can't pack frame: adsr time_scale"]
    ELSE [map |-> PutFrame(fm, channel, list, i,
                           [frame EXCEPT !.adsr_time_scale_1 = ToU16(ts - 1),
                                         !.adsr_release_start = ReleaseStart(articulation)]),
          ok |-> 1, msg |-> ""]

\* voice_wf_setup_def and what follows it; frame is the slot at index i
PackFrame(fm, channel, list, i, frame, frequency, time_scale, volume, articulation, edit_last_duration, wf) ==
    IF ~wf
    THEN [map |-> PutFrame(fm, channel, list, i, frame), ok |-> 0,
          msg |-> IF frequency = 0 THEN "Can't pack frame: pause"
                  ELSE "Can't pack frame: waveform"]
    ELSE PackDuration(fm, channel, list, i,
                      [frame EXCEPT !.frequency = frequency,
                                    !.volume = IF frequency = 0 THEN 0 ELSE volume],
                      IF edit_last_duration # 0
                      THEN time_scale + frame.adsr_time_scale_1 + 1
                      ELSE time_scale,
                      articulation)

\* add_channel_frame from the join test on; list is the list after its
\* realloc and count++
EmitFrame(fm, channel, list, frequency, time_scale, volume, articulation, edit_last_duration, wf) ==
    PackFrame(fm, channel, list, list.count - 1, list.frames[list.count],
              frequency, time_scale, volume, articulation, edit_last_duration, wf)

\* add_channel_frame with the map grown to the channel
AddFrame(fm, channel, frequency, time_scale, volume, articulation, edit_last_duration, wf, gf) ==
    IF edit_last_duration # 0 /\ fm.channels[channel + 1].count = 0
    THEN [map |-> fm, ok |-> 0, msg |-> "Can't join, no note before"]
    ELSE EmitFrame(fm, channel,
                   GrowList(fm.channels[channel + 1], edit_last_duration, gf),
                   frequency, time_scale, volume, articulation, edit_last_duration, wf)

\* add_channel_frame: [map, ok, msg].  wf is what voice_wf_setup_def
\* answers, gf the content of a frame slot before it is written.
add_channel_frame(fm, channel, frequency, time_scale, volume, articulation, edit_last_duration, wf, gf) ==
    AddFrame(GrowMap(fm, channel), channel, frequency, time_scale, volume,
             articulation, edit_last_duration, wf, gf)

(***************************************************************************)
(* Initial state: the statics of mml.c as the program starts               *)
(***************************************************************************)
EmptyMap == [channel_count |-> 0, channels |-> <<>>]
Unwritten == [written |-> FALSE, value |-> EmptyMap]

Init ==
    /\ content = <<>>
    /\ beyond = <<>>
    /\ cur = 1
    /\ line = 1
    /\ pos = 1
    /\ join = 0
    /\ mml_channel_states = <<>>
    /\ mml_channel_count = 0
    /\ states_alloc = 0
    /\ initialized = {}
    /\ frame_map = EmptyMap
    /\ error_handler = "NULL"
    /\ reports = <<>>
    /\ pc = "idle"
    /\ ret = 0
    /\ map = Unwritten
    /\ calls = 0

(***************************************************************************)
(* The scanner loop                                                        *)
(***************************************************************************)
\* char code = content[0] of the iteration about to run
code == Mem(content, beyond, cur)

\* int join = 0 at the head of the part of an iteration that uses the flag
JoinFlag == 0

\* value a call of mml_parse that runs off its end without a return
\* statement hands to mml_compile
UndefinedReturns == {0, 1}

\* error_handler(msg, line, pos) and the return of 1 through mml_compile
Fail(msgs) ==
    /\ reports' = reports \o msgs
    /\ pc' = "returned"
    /\ ret' = 1
    /\ map' = map

\* an iteration that ends without an error
Continue ==
    /\ pc' = "scan"
    /\ UNCHANGED <<reports, ret, map>>

\* assign the fields of upd in the record of every active channel
ForActive(T, upd) ==
    [T EXCEPT !.states =
        [i \in 1..Len(T.states) |->
            IF i <= T.count /\ T.states[i].isActive # 0
            THEN [f \in DOMAIN T.states[i] |->
                     IF f \in DOMAIN upd THEN upd[f] ELSE T.states[i][f]]
            ELSE T.states[i]]]

mml_set_error_handler ==
    /\ pc \in {"idle", "returned"}
    /\ error_handler' = "installed"
    /\ UNCHANGED <<content, beyond, cur, line, pos, join, mml_channel_states,
                   mml_channel_count, states_alloc, initialized, frame_map,
                   reports, pc, ret, map, calls>>

\* mml_compile(text, map) is entered: mml_parse up to its first
\* reset_active_state.  The block malloc(0) returns holds no record; g is
\* what the records behind it hold.
Enter(text, g) ==
    /\ content' = text
    /\ SetTable(reset_active_state(
           [states |-> [i \in 1..mml_channel_count |-> g],
            count |-> mml_channel_count, alloc |-> 0, inited |-> {}], g))
    /\ beyond' = <<>>
    /\ cur' = 1
    /\ line' = 1
    /\ pos' = 0
    /\ join' = 0
    /\ frame_map' = EmptyMap
    /\ reports' = <<>>
    /\ pc' = "scan"
    /\ ret' = 0
    /\ map' = Unwritten
    /\ calls' = calls + 1
    /\ UNCHANGED error_handler

mml_compile ==
    /\ pc \in {"idle", "returned"}
    /\ error_handler = "installed"
    /\ calls < MaxCompiles
    /\ \E g \in (IF mml_channel_count = 0 THEN {ZeroState} ELSE GarbageStates) :
          IF calls = 0
          THEN \/ \E f \in TextFamilies : \E k \in 0..f.max :
                     \E text \in [1..k -> f.alphabet] : Enter(text, g)
               \/ \E text \in TokenTexts : Enter(text, g)
          ELSE \E text \in RepeatTexts : Enter(text, g)

\* the terminator is read: statistics, free, and mml_parse ends without a
\* return value; mml_compile tests it
ScanEnd ==
    /\ pc = "scan"
    /\ code = NUL
    /\ cur' = cur + 1
    /\ pos' = pos + 1
    /\ join' = 0
    /\ states_alloc' = 0
    /\ \E r \in UndefinedReturns :
          /\ ret' = r
          /\ map' = IF r # 0 THEN map ELSE [written |-> TRUE, value |-> frame_map]
    /\ pc' = "returned"
    /\ UNCHANGED <<content, beyond, line, mml_channel_states, mml_channel_count,
                   initialized, frame_map, error_handler, reports, calls>>

StepBlank ==
    /\ pc = "scan"
    /\ code # NUL
    /\ code <= 32 \/ code = Asc("|")
    /\ cur' = cur + 1
    /\ join' = 0
    /\ IF code = Asc("\n")
       THEN /\ line' = line + 1
            /\ SetTable(reset_active_state(Table, ZeroState))
            /\ pos' = 0
       ELSE /\ pos' = IF code = Asc("\r") THEN pos ELSE pos + 1
            /\ UNCHANGED <<line, mml_channel_states, mml_channel_count,
                           states_alloc, initialized>>
    /\ Continue
    /\ UNCHANGED <<content, beyond, frame_map, error_handler, calls>>

\* index of the first line feed at or after i, 0 if there is none up to last
RECURSIVE LineFeedFrom(_, _, _, _)
LineFeedFrom(txt, b, i, last) ==
    IF i > last THEN 0
    ELSE IF Mem(txt, b, i) = Asc("\n") THEN i
    ELSE LineFeedFrom(txt, b, i + 1, last)

\* a comment: the rest of the line is skipped.  Without a line feed before
\* the terminator the loop reads on behind the buffer, where it faults or
\* meets a line feed in foreign memory.
StepComment ==
    /\ pc = "scan"
    /\ code = Asc("#") \/ code = Asc(";")
    /\ join' = 0
    /\ LET inside == LineFeedFrom(content, beyond, cur + 1, Len(content) + 1 + Len(beyond))
       IN  \/ /\ inside # 0
              /\ cur' = inside + 1
              /\ beyond' = beyond
              /\ line' = line + 1
              /\ SetTable(reset_active_state(Table, ZeroState))
              /\ pos' = 0
              /\ Continue
           \/ /\ inside = 0
              /\ beyond = <<>>
              /\ \E tail \in BeyondTails :
                    /\ beyond' = tail
                    /\ cur' = LineFeedFrom(content, tail, cur + 1, Len(content) + 1 + Len(tail)) + 1
              /\ line' = line + 1
              /\ SetTable(reset_active_state(Table, ZeroState))
              /\ pos' = 0
              /\ Continue
           \/ /\ inside = 0
              /\ pc' = "crashed"
              /\ cur' = Len(content) + Len(beyond) + 2
              /\ pos' = pos + 1
              /\ UNCHANGED <<beyond, line, mml_channel_states, mml_channel_count,
                             states_alloc, initialized, reports, ret, map>>
    /\ UNCHANGED <<content, frame_map, error_handler, calls>>

StepJoin ==
    /\ pc = "scan"
    /\ code = Asc("&")
    /\ cur' = cur + 1
    /\ pos' = pos + 1
    /\ join' = 1
    /\ Continue
    /\ UNCHANGED <<content, beyond, line, mml_channel_states, mml_channel_count,
                   states_alloc, initialized, frame_map, error_handler, calls>>

\* the while loop of the selector: [T, cur]
RECURSIVE SelectRun(_, _, _, _, _)
SelectRun(txt, b, T, i, g) ==
    IF IsUpper(Mem(txt, b, i))
    THEN SelectRun(txt, b, enable_channel(T, Mem(txt, b, i) - Asc("A"), g), i + 1, g)
    ELSE [T |-> T, cur |-> i]

StepSelector ==
    /\ pc = "scan"
    /\ IsUpper(code)
    /\ pos + 1 = 1
    /\ join' = 0
    /\ \E g \in GarbageStates :
       \E run \in {SelectRun(content, beyond,
                             enable_channel([Table EXCEPT !.states[1].isActive = 0],
                                            code - Asc("A"), g),
                             cur + 1, g)} :
          /\ SetTable(run.T)
          /\ cur' = run.cur
          /\ pos' = pos + 1 + (run.cur - (cur + 1))
    /\ Continue
    /\ UNCHANGED <<content, beyond, line, frame_map, error_handler, calls>>

\* an uppercase letter elsewhere: the handler is called and the iteration
\* goes on to the command chain with the letter as its code
StepMisplaced ==
    /\ pc = "scan"
    /\ IsUpper(code)
    /\ pos + 1 # 1
    /\ cur' = cur + 1
    /\ pos' = pos + 1
    /\ join' = 0
    /\ reports' = Append(reports, "Misplaced channel selector")
    /\ pc' = "dispatch"
    /\ UNCHANGED <<content, beyond, line, mml_channel_states, mml_channel_count,
                   states_alloc, initialized, frame_map, error_handler, ret, map, calls>>

\* the else branch of the command chain
UnknownCommand ==
    /\ Fail(<<"Unknown command">>)
    /\ UNCHANGED <<content, beyond, line, join, mml_channel_states, mml_channel_count,
                   states_alloc, initialized, frame_map, error_handler, calls>>

\* variant: the iteration ends after the notification and the scan goes on
DispatchMisplacedContinues ==
    /\ pc = "dispatch"
    /\ pc' = "scan"
    /\ UNCHANGED <<content, beyond, cur, line, pos, join, mml_channel_states,
                   mml_channel_count, states_alloc, initialized, frame_map,
                   error_handler, reports, ret, map, calls>>

\* the command chain for the uppercase letter of StepMisplaced: no branch
\* takes it but the last
DispatchMisplaced ==
    /\ pc = "dispatch"
    /\ UnknownCommand
    /\ UNCHANGED <<cur, pos>>

(***************************************************************************)
(* State-setting commands                                                  *)
(***************************************************************************)
StepOctave ==
    /\ pc = "scan"
    /\ code = Asc("o")
    /\ cur' = cur + 2
    /\ pos' = pos + 2
    /\ join' = JoinFlag
    /\ \E octave \in {read_digit(content, beyond, cur + 1)} :
          IF octave = 255 \/ octave > 6
          THEN /\ Fail(<<"Invalid octave">>)
               /\ UNCHANGED <<mml_channel_states, mml_channel_count, states_alloc, initialized>>
          ELSE /\ SetTable(ForActive(Table, [octave |-> octave]))
               /\ Continue
    /\ UNCHANGED <<content, beyond, line, frame_map, error_handler, calls>>

\* index behind the run of '.' that starts at i
RECURSIVE DotsEnd(_, _, _)
DotsEnd(txt, b, i) ==
    IF Mem(txt, b, i) = Asc(".") THEN DotsEnd(txt, b, i + 1) ELSE i

StepLength ==
    /\ pc = "scan"
    /\ code = Asc("l")
    /\ join' = JoinFlag
    /\ \E num \in {read_number(content, beyond, cur + 1)} :
          IF num.ret < 0
          THEN /\ Fail(<<"Invalid length">>)
               /\ cur' = num.cur
               /\ pos' = pos + 1 + num.adv
               /\ UNCHANGED <<mml_channel_states, mml_channel_count, states_alloc, initialized>>
          ELSE \E dot \in {DotsEnd(content, beyond, num.cur) - num.cur} :
                  /\ SetTable(ForActive(Table, [default_length |-> num.ret,
                                                default_length_dot |-> dot]))
                  /\ cur' = num.cur + dot
                  /\ pos' = pos + 1 + num.adv + dot
                  /\ Continue
    /\ UNCHANGED <<content, beyond, line, frame_map, error_handler, calls>>

StepTempo ==
    /\ pc = "scan"
    /\ code = Asc("t")
    /\ join' = JoinFlag
    /\ \E num \in {read_number(content, beyond, cur + 1)} :
          /\ cur' = num.cur
          /\ pos' = pos + 1 + num.adv
          /\ IF num.ret < 0
             THEN /\ Fail(<<"Invalid tempo">>)
                  /\ UNCHANGED <<mml_channel_states, mml_channel_count, states_alloc, initialized>>
             ELSE /\ SetTable(ForActive(Table, [tempo |-> num.ret]))
                  /\ Continue
    /\ UNCHANGED <<content, beyond, line, frame_map, error_handler, calls>>

StepVolume ==
    /\ pc = "scan"
    /\ code = Asc("v")
    /\ join' = JoinFlag
    /\ \E num \in {read_number(content, beyond, cur + 1)} :
          /\ cur' = num.cur
          /\ pos' = pos + 1 + num.adv
          /\ IF num.ret < 0 \/ num.ret > 128
             THEN /\ Fail(<<"Invalid volume">>)
                  /\ UNCHANGED <<mml_channel_states, mml_channel_count, states_alloc, initialized>>
             ELSE /\ SetTable(ForActive(Table, [volume |-> num.ret]))
                  /\ Continue
    /\ UNCHANGED <<content, beyond, line, frame_map, error_handler, calls>>

\* the loops of '<' (step = -1, limit = 0) and '>' (step = 1, limit = 9)
\* from channel i on: [T, ok]
\* variant: the octave of every active channel is stepped, whatever it is
RECURSIVE OctaveStepUnchecked(_, _, _, _)
OctaveStepUnchecked(T, i, step, limit) ==
    IF i >= T.count THEN [T |-> T, ok |-> TRUE]
    ELSE IF T.states[i + 1].isActive = 0 THEN OctaveStepUnchecked(T, i + 1, step, limit)
    ELSE OctaveStepUnchecked([T EXCEPT !.states[i + 1].octave = @ + step], i + 1, step, limit)

RECURSIVE OctaveStep(_, _, _, _)
OctaveStep(T, i, step, limit) ==
    IF i >= T.count THEN [T |-> T, ok |-> TRUE]
    ELSE IF T.states[i + 1].isActive = 0 THEN OctaveStep(T, i + 1, step, limit)
    ELSE IF T.states[i + 1].octave = limit THEN [T |-> T, ok |-> FALSE]
    ELSE OctaveStep([T EXCEPT !.states[i + 1].octave = @ + step], i + 1, step, limit)

StepOctaveDown ==
    /\ pc = "scan"
    /\ code = Asc("<")
    /\ cur' = cur + 1
    /\ pos' = pos + 1
    /\ join' = JoinFlag
    /\ \E r \in {OctaveStep(Table, 0, -1, 0)} :
          /\ SetTable(r.T)
          /\ IF r.ok THEN Continue ELSE Fail(<<"Invalid octave step down">>)
    /\ UNCHANGED <<content, beyond, line, frame_map, error_handler, calls>>

StepOctaveUp ==
    /\ pc = "scan"
    /\ code = Asc(">")
    /\ cur' = cur + 1
    /\ pos' = pos + 1
    /\ join' = JoinFlag
    /\ \E r \in {OctaveStep(Table, 0, 1, 9)} :
          /\ SetTable(r.T)
          /\ IF r.ok THEN Continue ELSE Fail(<<"Invalid octave step up">>)
    /\ UNCHANGED <<content, beyond, line, frame_map, error_handler, calls>>

StepArticulation ==
    /\ pc = "scan"
    /\ code = Asc("m")
    /\ join' = JoinFlag
    /\ \E c \in {Mem(content, beyond, cur + 1)} :
          IF c \in {Asc("l"), Asc("n"), Asc("s")}
          THEN /\ SetTable(ForActive(Table,
                      [articulation |-> IF c = Asc("l") THEN ARTICULATION_LEGATO
                                        ELSE IF c = Asc("n") THEN ARTICULATION_NORMAL
                                        ELSE ARTICULATION_STACCATO]))
               /\ cur' = cur + 2
               /\ pos' = pos + 2
               /\ Continue
          ELSE /\ Fail(<<"Invalid music articulation">>)
               /\ cur' = cur + 1
               /\ pos' = pos + 1
               /\ UNCHANGED <<mml_channel_states, mml_channel_count, states_alloc, initialized>>
    /\ UNCHANGED <<content, beyond, line, frame_map, error_handler, calls>>

(***************************************************************************)
(* Notes and rests                                                         *)
(***************************************************************************)
\* the modifier loop behind the entry code.  S is [cur, pos, code, sharp,
\* length, dot, customLength, noteCode, err]; err is the message of the
\* error that ended the loop, or "".
RECURSIVE NoteLoop(_, _, _, _, _)

\* variant: the letter is tested as it was written, before the sign is
\* applied
NoteSharpTestsWritten(txt, b, S, isPause, isNoteCode, c) ==
    IF S.code = Asc("e") \/ S.code = Asc("b")
    THEN [S EXCEPT !.code = c, !.err = "Invalid sharp"]
    ELSE NoteLoop(txt, b, [S EXCEPT !.code = c, !.sharp = 1, !.cur = @ + 1, !.pos = @ + 1],
                  isPause, isNoteCode)

\* a sharp or flat sign; c is the code after the sign was applied
NoteSharp(txt, b, S, isPause, isNoteCode, c) ==
    IF c = Asc("e") \/ c = Asc("b")
    THEN [S EXCEPT !.code = c, !.err = "Invalid sharp"]
    ELSE NoteLoop(txt, b, [S EXCEPT !.code = c, !.sharp = 1, !.cur = @ + 1, !.pos = @ + 1],
                  isPause, isNoteCode)

\* digits behind n; num is what read_number answered
NoteCodeDigits(txt, b, S, isPause, isNoteCode, num) ==
    IF S.noteCode # -1 THEN [S EXCEPT !.err = "Invalid note code"]
    ELSE IF num.ret < 0 \/ num.ret > 84
    THEN [S EXCEPT !.noteCode = num.ret, !.cur = num.cur, !.pos = @ + num.adv,
                   !.err = "Invalid note code"]
    ELSE NoteLoop(txt, b, [S EXCEPT !.noteCode = num.ret, !.cur = num.cur, !.pos = @ + num.adv],
                  isPause, isNoteCode)

\* digits of a length; num is what read_number answered
NoteLengthDigits(txt, b, S, isPause, isNoteCode, num) ==
    IF S.customLength # 0 THEN [S EXCEPT !.err = "Invalid length"]
    ELSE IF num.ret < 0
    THEN [S EXCEPT !.length = num.ret, !.cur = num.cur, !.pos = @ + num.adv,
                   !.err = "Invalid length"]
    ELSE NoteLoop(txt, b, [S EXCEPT !.length = num.ret, !.customLength = 1,
                                    !.cur = num.cur, !.pos = @ + num.adv],
                  isPause, isNoteCode)

\* one turn of the loop, next being content[0]
NoteLoopOn(txt, b, S, isPause, isNoteCode, next) ==
    IF ~isPause /\ ~isNoteCode /\ next \in {Asc("-"), Asc("+"), Asc("#")}
    THEN NoteSharp(txt, b, S, isPause, isNoteCode,
                   IF next = Asc("-") THEN S.code - 1 ELSE S.code)
    ELSE IF IsDigit(next)
    THEN IF isNoteCode
         THEN NoteCodeDigits(txt, b, S, isPause, isNoteCode, read_number(txt, b, S.cur))
         ELSE NoteLengthDigits(txt, b, S, isPause, isNoteCode, read_number(txt, b, S.cur))
    ELSE IF next = Asc(".")
    THEN NoteLoop(txt, b, [S EXCEPT !.dot = @ + 1, !.cur = @ + 1, !.pos = @ + 1],
                  isPause, isNoteCode)
    ELSE S

NoteLoop(txt, b, S, isPause, isNoteCode) ==
    NoteLoopOn(txt, b, S, isPause, isNoteCode, Mem(txt, b, S.cur))

\* length and dots the quantizer is called with
NoteLength(state, length) == IF length < 0 THEN state.default_length ELSE length
\* variant: a note without dots of its own takes the default dots
NoteDotsOrDefault(state, length, dot) ==
    IF dot = 0 THEN state.default_length_dot ELSE dot
NoteDots(state, length, dot) ==
    IF length < 0 /\ dot = 0 THEN state.default_length_dot ELSE dot

\* frequency of the frame
NoteFrequency(state, isPause, isNoteCode, S) ==
    IF isPause \/ (isNoteCode /\ S.noteCode = 0) THEN 0
    ELSE IF isNoteCode THEN get_freq_from_code(S.noteCode)
    ELSE get_freq_from_note(S.code, S.sharp, state.octave)

\* the loop "Set note" from channel i on: [T, map, ok, msg].  wfail is the
\* channel voice_wf_setup_def refuses (-1: none).
RECURSIVE NoteChannels(_, _, _, _, _, _, _, _, _)

\* the end of a turn: T holds the quantizer's update, a is what
\* add_channel_frame answered
NoteEmitted(i, T, a, isPause, isNoteCode, S, wfail, u, gf) ==
    IF a.ok = 0 THEN [T |-> T, map |-> a.map, ok |-> FALSE, msg |-> a.msg]
    ELSE NoteChannels(i + 1, T, a.map, isPause, isNoteCode, S, wfail, u, gf)

\* a turn for the active channel i; q is what get_adsr_time_scale answered
NoteOnChannel(i, T, fm, isPause, isNoteCode, S, wfail, u, gf, q) ==
    NoteEmitted(i, [T EXCEPT !.states[i + 1] = q.state],
                add_channel_frame(fm, i,
                                  NoteFrequency(T.states[i + 1], isPause, isNoteCode, S),
                                  q.time_scale, T.states[i + 1].volume,
                                  T.states[i + 1].articulation, JoinFlag, wfail # i, gf),
                isPause, isNoteCode, S, wfail, u, gf)

\* variant: the note is set on every channel of the table, active or not
NoteChannelsAll(i, T, fm, isPause, isNoteCode, S, wfail, u, gf) ==
    IF i >= T.count THEN [T |-> T, map |-> fm, ok |-> TRUE, msg |-> ""]
    ELSE NoteOnChannel(i, T, fm, isPause, isNoteCode, S, wfail, u, gf,
                       get_adsr_time_scale(T.states[i + 1],
                                           NoteLength(T.states[i + 1], S.length),
                                           NoteDots(T.states[i + 1], S.length, S.dot), u))

NoteChannels(i, T, fm, isPause, isNoteCode, S, wfail, u, gf) ==
    IF i >= T.count THEN [T |-> T, map |-> fm, ok |-> TRUE, msg |-> ""]
    ELSE IF T.states[i + 1].isActive = 0
    THEN NoteChannels(i + 1, T, fm, isPause, isNoteCode, S, wfail, u, gf)
    ELSE NoteOnChannel(i, T, fm, isPause, isNoteCode, S, wfail, u, gf,
                       get_adsr_time_scale(T.states[i + 1],
                                           NoteLength(T.states[i + 1], S.length),
                                           NoteDots(T.states[i + 1], S.length, S.dot), u))

IsNoteEntry(c) ==
    \/ c = Asc("p") \/ c = Asc("r") \/ c = Asc("n")
    \/ (c >= Asc("a") /\ c <= Asc("g"))

\* does the quantizer convert an infinite double for some active channel
UsesUndefined(T, S) ==
    \E i \in Active(T) :
        LET state == T.states[i + 1]
        IN  IsInf(RatAdd(state.seconds,
                         NoteSeconds(state.tempo, NoteLength(state, S.length),
                                     NoteDots(state, S.length, S.dot))))

AnyUndefined == CHOOSE u \in UndefinedQuantizations : TRUE
AnyFrame == CHOOSE gf \in GarbageFrames : TRUE

\* the state of the modifier loop at its entry
NoteEntry ==
    [cur |-> cur + 1, pos |-> pos + 1, code |-> code, sharp |-> 0, length |-> -1,
     dot |-> 0, customLength |-> 0, noteCode |-> -1, err |-> ""]

\* a note or a rest.  isPause and isNoteCode are assigned by the entry test;
\* for p and r the test stops before it assigns isNoteCode, which is then
\* read with the value the stack holds.
StepNote ==
    /\ pc = "scan"
    /\ IsNoteEntry(code)
    /\ join' = JoinFlag
    /\ \E isPause \in {code = Asc("p") \/ code = Asc("r")} :
       \E isNoteCode \in (IF isPause THEN BOOLEAN ELSE {code = Asc("n")}) :
       \E S \in {NoteLoop(content, beyond, NoteEntry, isPause, isNoteCode)} :
          /\ cur' = S.cur
          /\ pos' = S.pos
          /\ IF S.err # ""
             THEN /\ Fail(<<S.err>>)
                  /\ UNCHANGED <<mml_channel_states, mml_channel_count,
                                 states_alloc, initialized, frame_map>>
             ELSE \E wfail \in -1..(mml_channel_count - 1),
                     u \in (IF UsesUndefined(Table, S) THEN UndefinedQuantizations
                            ELSE {AnyUndefined}) :
                  \E R0 \in {NoteChannels(0, Table, frame_map, isPause, isNoteCode,
                                          S, wfail, u, AnyFrame)} :
                  \* the slot of a frame keeps what it held only when the
                  \* emitter fails
                  \E R \in (IF R0.ok THEN {R0}
                            ELSE {NoteChannels(0, Table, frame_map, isPause, isNoteCode,
                                               S, wfail, u, gf) : gf \in GarbageFrames}) :
                     /\ SetTable(R.T)
                     /\ frame_map' = R.map
                     /\ IF R.ok THEN Continue ELSE Fail(<<R.msg>>)
    /\ UNCHANGED <<content, beyond, line, error_handler, calls>>

\* codes some branch before the last else takes
IsCommand(c) ==
    \/ c \in {Asc("o"), Asc("l"), Asc("t"), Asc("v"), Asc("<"), Asc(">"), Asc("m")}
    \/ IsNoteEntry(c)

StepUnknown ==
    /\ pc = "scan"
    /\ code > 32
    /\ code \notin {Asc("|"), Asc("#"), Asc(";"), Asc("&")}
    /\ ~IsUpper(code)
    /\ ~IsCommand(code)
    /\ cur' = cur + 1
    /\ pos' = pos + 1
    /\ UnknownCommand

Next ==
    \/ mml_set_error_handler
    \/ mml_compile
    \/ ScanEnd
    \/ StepBlank
    \/ StepComment
    \/ StepJoin
    \/ StepSelector
    \/ StepMisplaced
    \/ DispatchMisplaced
    \/ StepOctave
    \/ StepLength
    \/ StepTempo
    \/ StepVolume
    \/ StepOctaveDown
    \/ StepOctaveUp
    \/ StepArticulation
    \/ StepNote
    \/ StepUnknown

Spec == Init /\ [][Next]_vars

(***************************************************************************)
(* Properties                                                              *)
(***************************************************************************)
\* frames of channel i in a frame map
FrameCount(fm, i) == IF i < fm.channel_count THEN fm.channels[i + 1].count ELSE 0
LastFrame(fm, i) == fm.channels[i + 1].frames[fm.channels[i + 1].count]
\* duration of a frame in envelope units
Duration(frame) == frame.adsr_time_scale_1 + 1

\* The statements of C1, C3 .. C9 are made of the first call of mml_compile,
\* where no record of an earlier call is in play.

\* C1: a note or rest that directly follows '&' leaves the frame count of
\* every active channel that holds a frame as it is, and adds the newly
\* quantized time_scale to the duration of the channel's last frame.
C1_JoinMerges ==
    [][(pc = "scan" /\ calls = 1 /\ join = 1 /\ IsNoteEntry(code) /\ pc' = "scan")
         => \A i \in Active(Table) :
               FrameCount(frame_map, i) >= 1
                 => /\ FrameCount(frame_map', i) = FrameCount(frame_map, i)
                    /\ Duration(LastFrame(frame_map', i)) * ADSR_TIME_UNITS
                         = Duration(LastFrame(frame_map, i)) * ADSR_TIME_UNITS
                             + (mml_channel_states'[i + 1].time_units
                                  - mml_channel_states[i + 1].time_units)]_vars

\* C2: once the handler has been called in a call of mml_compile, no step of
\* that call changes a frame or a channel record, and the call returns a
\* non-zero value without writing the caller's map.
C2_ErrorsTerminal ==
    /\ [](pc = "returned" /\ reports # <<>> => ret # 0 /\ ~map.written)
    /\ [][(reports # <<>> /\ calls' = calls)
            => /\ frame_map' = frame_map
               /\ mml_channel_states' = mml_channel_states
               /\ mml_channel_count' = mml_channel_count
               /\ pc' \in {"returned", "dispatch"}]_vars

\* an error after frames were emitted: the call has returned 1, the map is
\* unwritten, and the frames before the error point are all there is
C2_Witness ==
    /\ pc = "returned"
    /\ Len(reports) = 2
    /\ ret = 1
    /\ ~map.written
    /\ FrameCount(frame_map, 0) = 1
    /\ cur <= Len(content)

\* C3: the handler is called at most once during a call of mml_compile.
C3_ReportedAtMostOnce == calls = 1 => Len(reports) <= 1

\* C4: a call of mml_compile that has returned returned non-zero if and only
\* if the handler was called; without an error it returned 0 and the caller's
\* map holds the frame map of this parse.
C4_ReturnsZeroIffNoError ==
    pc = "returned" /\ calls = 1
      => /\ (ret # 0) <=> (reports # <<>>)
         /\ reports = <<>> => map = [written |-> TRUE, value |-> frame_map]

\* C5: the scan reads no byte behind the terminator of the text, and does
\* not fault.
C5_NoReadBehindTerminator == calls = 1 => beyond = <<>> /\ pc # "crashed"

RECURSIVE SumDurations(_)
SumDurations(frames) ==
    IF frames = <<>> THEN 0
    ELSE Duration(Head(frames)) * ADSR_TIME_UNITS + SumDurations(Tail(frames))

\* time units of the frames of channel i
EmittedUnits(i) ==
    IF i < frame_map.channel_count THEN SumDurations(frame_map.channels[i + 1].frames)
    ELSE 0

\* C6: after every note or rest, the durations of the frames of a channel
\* add up, in time units, to round(running seconds * synth_freq) give or take
\* one ADSR_TIME_UNITS.
C6_DriftBounded ==
    pc = "scan" /\ calls = 1
      => \A i \in initialized :
            Abs(EmittedUnits(i) - RoundTimes(mml_channel_states[i + 1].seconds, synth_freq))
              <= ADSR_TIME_UNITS

\* channels the run of uppercase letters at index i names
RECURSIVE RunLetters(_, _, _)
RunLetters(txt, b, i) ==
    IF IsUpper(Mem(txt, b, i))
    THEN {Mem(txt, b, i) - Asc("A")} \cup RunLetters(txt, b, i + 1)
    ELSE {}

\* the values a channel has on its first reference
HasDefaults(state) ==
    /\ state.octave = 4
    /\ state.default_length = 4
    /\ state.default_length_dot = 0
    /\ state.tempo = 120
    /\ state.volume = 63
    /\ state.articulation = ARTICULATION_NORMAL
    /\ state.seconds = [n |-> 0, d |-> 1]
    /\ state.time_units = 0

\* a selector is about to be decoded
AtSelector == pc = "scan" /\ IsUpper(code) /\ pos + 1 = 1

\* C7: channel 0 when the call starts, and every channel a selector names
\* that was not set up before in this call, has the default values.
C7_FirstReferenceHasDefaults ==
    /\ [](calls = 1 /\ pc = "scan" /\ cur = 1 => HasDefaults(mml_channel_states[1]))
    /\ [][(AtSelector /\ calls = 1)
            => \A i \in RunLetters(content, beyond, cur) \ initialized :
                  HasDefaults(mml_channel_states'[i + 1])]_vars

\* channels active in the next state
ActiveNext ==
    {i \in 0..(mml_channel_count' - 1) : mml_channel_states'[i + 1].isActive # 0}

\* C8: after a selector exactly the channels of its letters are active; a
\* line starts with exactly channel 0 active; a command or a note leaves the
\* records and the frames of the channels that are not active as they are.
C8_SelectionScopedToLine ==
    /\ [](calls = 1 /\ pc = "scan" /\ pos = 0 => Active(Table) = {0})
    /\ [][(AtSelector /\ calls = 1)
            => ActiveNext = RunLetters(content, beyond, cur)]_vars
    /\ [][(pc = "scan" /\ calls = 1 /\ IsCommand(code))
            => \A i \in (0..(mml_channel_count - 1)) \ Active(Table) :
                  /\ mml_channel_states'[i + 1] = mml_channel_states[i + 1]
                  /\ FrameCount(frame_map', i) = FrameCount(frame_map, i)]_vars

\* the number written behind the command at cur
Argument == DigitsValue(content, beyond, cur + 1, DigitsEnd(content, beyond, cur + 1))

\* C9: v<number> sets the volume of every active channel for a number in
\* 0..128 and reports "Invalid volume" for a larger one; the volume of a
\* channel that was set up is in 0..128.
C9_VolumeRange ==
    /\ [](\A i \in initialized : mml_channel_states[i + 1].volume \in 0..128)
    /\ [][(pc = "scan" /\ calls = 1 /\ code = Asc("v")
             /\ IsDigit(Mem(content, beyond, cur + 1)))
            => IF Argument <= 128
               THEN /\ pc' = "scan"
                    /\ \A i \in Active(Table) :
                          mml_channel_states'[i + 1].volume = Argument
               ELSE /\ pc' = "returned"
                    /\ reports' = <<"Invalid volume">>]_vars

\* C10: the octave of every channel that was set up is in 0..9; o takes the
\* digits 0..6 and reports "Invalid octave" otherwise; > with an active
\* channel at 9 and < with one at 0 report their errors; an octave above 6 is
\* only ever entered by a step of > (and left or lowered by a step of <).
C10_OctaveRange ==
    /\ [](\A i \in initialized : mml_channel_states[i + 1].octave \in 0..9)
    /\ [][(pc = "scan" /\ code = Asc("o"))
            => LET d == Mem(content, beyond, cur + 1) - Asc("0")
               IN  IF d \in 0..6
                   THEN /\ pc' = "scan"
                        /\ \A i \in Active(Table) : mml_channel_states'[i + 1].octave = d
                   ELSE /\ pc' = "returned"
                        /\ reports' = <<"Invalid octave">>]_vars
    /\ [][(pc = "scan" /\ code = Asc(">"))
            => IF \E i \in Active(Table) : mml_channel_states[i + 1].octave = 9
               THEN pc' = "returned" /\ reports' = <<"Invalid octave step up">>
               ELSE /\ pc' = "scan"
                    /\ \A i \in Active(Table) :
                          mml_channel_states'[i + 1].octave
                            = mml_channel_states[i + 1].octave + 1]_vars
    /\ [][(pc = "scan" /\ code = Asc("<"))
            => IF \E i \in Active(Table) : mml_channel_states[i + 1].octave = 0
               THEN pc' = "returned" /\ reports' = <<"Invalid octave step down">>
               ELSE /\ pc' = "scan"
                    /\ \A i \in Active(Table) :
                          mml_channel_states'[i + 1].octave
                            = mml_channel_states[i + 1].octave - 1]_vars
    /\ [][calls' = calls
            => \A i \in initialized \cap initialized' :
                  (/\ mml_channel_states'[i + 1].octave >= 7
                   /\ mml_channel_states'[i + 1].octave # mml_channel_states[i + 1].octave)
                    => /\ pc = "scan"
                       /\ \/ /\ code = Asc(">")
                             /\ mml_channel_states'[i + 1].octave
                                  = mml_channel_states[i + 1].octave + 1
                          \/ /\ code = Asc("<")
                             /\ mml_channel_states[i + 1].octave >= 8
                             /\ mml_channel_states'[i + 1].octave
                                  = mml_channel_states[i + 1].octave - 1]_vars

\* > was refused at octave 9, which o cannot set
C10_Witness ==
    /\ pc = "returned"
    /\ reports = <<"Invalid octave step up">>
    /\ 0 \in initialized
    /\ mml_channel_states[1].octave = 9

\* frames of channel i in a frame map
Frames(fm, i) == IF i < fm.channel_count THEN fm.channels[i + 1].frames ELSE <<>>

\* a note or rest with no modifier behind its entry code is about to be set
PlainToken == Mem(content, beyond, cur + 1) \notin
                  ({Asc("-"), Asc("+"), Asc("#"), Asc(".")} \cup Asc("0")..Asc("9"))

\* running seconds of a channel after a token of its default length
DefaultRunning(state) ==
    RatAdd(state.seconds,
           NoteSeconds(state.tempo, state.default_length, state.default_length_dot))

\* C11: a note or rest that is not joined and is set without error appends
\* exactly one frame behind the frames of every active channel and leaves
\* the frames of every other channel as they are; the frame of a plain c has
\* the pitch of the channel's octave, the channel's volume, and the duration
\* the channel's tempo and default length give.
C11_NoteAppendsOneFrame ==
    [][(pc = "scan" /\ join = 0 /\ IsNoteEntry(code) /\ pc' = "scan")
         => \A i \in 0..(mml_channel_count - 1) :
               IF i \in Active(Table)
               THEN /\ Len(Frames(frame_map', i)) = Len(Frames(frame_map, i)) + 1
                    /\ FrameCount(frame_map', i) = Len(Frames(frame_map', i))
                    /\ SubSeq(Frames(frame_map', i), 1, Len(Frames(frame_map, i)))
                         = Frames(frame_map, i)
                    /\ (code = Asc("c") /\ PlainToken)
                         => /\ LastFrame(frame_map', i).frequency
                                 = FreqTable[12 * mml_channel_states[i + 1].octave + 2]
                            /\ LastFrame(frame_map', i).volume
                                 = mml_channel_states[i + 1].volume
                            /\ ~IsInf(DefaultRunning(mml_channel_states[i + 1]))
                                 => LastFrame(frame_map', i).adsr_time_scale_1
                                      = ToU16(Round(RoundTimes(DefaultRunning(mml_channel_states[i + 1]),
                                                               synth_freq)
                                                      - mml_channel_states[i + 1].time_units,
                                                    ADSR_TIME_UNITS) - 1)
               ELSE Frames(frame_map', i) = Frames(frame_map, i)]_vars

\* three plain notes on a line without selector have left three frames on
\* channel 0
C11_Witness ==
    /\ pc = "scan"
    /\ reports = <<>>
    /\ content = <<Asc("c"), Asc("c"), Asc("c")>>
    /\ code = NUL
    /\ FrameCount(frame_map, 0) = 3

\* C12: a note that directly follows '&', whose modifiers are in order,
\* with an active channel that holds no frame, reports "Can't join, no note
\* before", leaves every frame list as it is, and fails the call.  (First
\* call of mml_compile.)
C12_JoinNeedsFrame ==
    [][(/\ pc = "scan" /\ calls = 1 /\ join = 1
        /\ code >= Asc("a") /\ code <= Asc("g")
        /\ NoteLoop(content, beyond, NoteEntry, FALSE, FALSE).err = ""
        /\ \E i \in Active(Table) : FrameCount(frame_map, i) = 0)
         => /\ pc' = "returned"
            /\ ret' # 0
            /\ reports' = <<"Can't join, no note before">>
            /\ \A i \in 0..(mml_channel_count - 1) :
                  Frames(frame_map', i) = Frames(frame_map, i)]_vars

QuantizedScale(i) ==
    (mml_channel_states'[i + 1].time_units - mml_channel_states[i + 1].time_units)
        \div ADSR_TIME_UNITS

\* C14: when a note or rest is set without error, the duration of the frame
\* of every active channel that was set up lies in 1..65536 and the stored
\* field is that duration less one.  (First call of mml_compile.)
C14_DurationInRange ==
    [][(pc = "scan" /\ calls = 1 /\ IsNoteEntry(code) /\ pc' = "scan")
         => \A i \in Active(Table) \cap initialized :
               /\ QuantizedScale(i) \in 1..65536
               /\ LastFrame(frame_map', i).adsr_time_scale_1 = QuantizedScale(i) - 1]_vars

\* C15: n<number>, with nothing of the token behind the number: for a
\* number in 0..84 "Invalid note code" is not reported, and when the token is
\* set every active channel gets a frame, a rest (frequency 0, volume 0) for
\* 0 and the pitch of the code otherwise; a larger number reports "Invalid
\* note code".  (First call of mml_compile.)
C15_NoteCodeRange ==
    [][(/\ pc = "scan" /\ calls = 1 /\ code = Asc("n")
        /\ IsDigit(Mem(content, beyond, cur + 1))
        /\ Mem(content, beyond, DigitsEnd(content, beyond, cur + 1)) # Asc("."))
         => IF Argument <= 84
            THEN /\ reports' # <<"Invalid note code">>
                 /\ pc' = "scan"
                      => \A i \in Active(Table) :
                            /\ FrameCount(frame_map', i) = FrameCount(frame_map, i) + 1
                            /\ LastFrame(frame_map', i).frequency
                                 = IF Argument = 0 THEN 0 ELSE FreqTable[Argument + 2]
                            /\ Argument = 0 => LastFrame(frame_map', i).volume = 0
            ELSE /\ pc' = "returned"
                 /\ reports' = <<"Invalid note code">>]_vars

\* semitone of a letter within its octave, c being 0
LetterSemitone(c) ==
    CASE c = Asc("c") -> 0 [] c = Asc("d") -> 2 [] c = Asc("e") -> 4
      [] c = Asc("f") -> 5 [] c = Asc("g") -> 7 [] c = Asc("a") -> 9
      [] c = Asc("b") -> 11

\* a letter with one '-' and nothing of the token behind it is about to be set
AtFlat ==
    /\ pc = "scan"
    /\ code >= Asc("a") /\ code <= Asc("g")
    /\ Mem(content, beyond, cur + 1) = Asc("-")
    /\ Mem(content, beyond, cur + 2) \notin
           ({Asc("-"), Asc("+"), Asc("#"), Asc(".")} \cup Asc("0")..Asc("9"))

\* the frame of every active channel has the pitch one semitone below the
\* letter at cur
FlatSet ==
    \A i \in Active(Table) :
        /\ FrameCount(frame_map', i) = FrameCount(frame_map, i) + 1
        /\ LastFrame(frame_map', i).frequency
             = FreqTable[LetterSemitone(code) - 1 + 12 * mml_channel_states[i + 1].octave + 2]

\* C16 (as written): '-' reports "Invalid sharp" exactly for the letters e
\* and b, and is accepted for c, d, f, g, a.
C16_FlatRefusesEB ==
    [][AtFlat
         => IF code \in {Asc("e"), Asc("b")}
            THEN pc' = "returned" /\ reports' = <<"Invalid sharp">>
            ELSE reports' # <<"Invalid sharp">> /\ (pc' = "scan" => FlatSet)]_vars

\* C16 (amended): '-' reports "Invalid sharp" and fails exactly for the
\* letters f and c, whose lower neighbours are e and b; for d, e, g, a, b it
\* is accepted and the frame has the pitch one semitone below the letter in
\* the same octave.
C16_FlatRefusesFC ==
    [][AtFlat
         => IF code \in {Asc("f"), Asc("c")}
            THEN /\ pc' = "returned"
                 /\ ret' = 1
                 /\ reports' = <<"Invalid sharp">>
                 /\ frame_map' = frame_map
            ELSE reports' # <<"Invalid sharp">> /\ (pc' = "scan" => FlatSet)]_vars

\* e- was accepted and set as e flat of octave 4
C16_Witness ==
    /\ pc = "scan"
    /\ calls = 1
    /\ content = <<Asc("e"), Asc("-")>>
    /\ code = NUL
    /\ reports = <<>>
    /\ FrameCount(frame_map, 0) = 1
    /\ LastFrame(frame_map, 0).frequency = 1244

\* index behind the digits and dots that follow index i - 1
RECURSIVE LengthPartEnd(_)
LengthPartEnd(i) ==
    IF IsDigit(Mem(content, beyond, i)) \/ Mem(content, beyond, i) = Asc(".")
    THEN LengthPartEnd(i + 1) ELSE i

\* number of '.' at the indices from .. to - 1
RECURSIVE WrittenDots(_, _)
WrittenDots(from, to) ==
    IF from >= to THEN 0
    ELSE (IF Mem(content, beyond, from) = Asc(".") THEN 1 ELSE 0) + WrittenDots(from + 1, to)

\* index of the first digit at or behind from and before to, 0 if none
RECURSIVE FirstDigit(_, _)
FirstDigit(from, to) ==
    IF from >= to THEN 0
    ELSE IF IsDigit(Mem(content, beyond, from)) THEN from
    ELSE FirstDigit(from + 1, to)

\* the length written in the token at cur, 0 if none
WrittenLength ==
    IF FirstDigit(cur + 1, LengthPartEnd(cur + 1)) = 0 THEN 0
    ELSE DigitsValue(content, beyond, FirstDigit(cur + 1, LengthPartEnd(cur + 1)),
                     DigitsEnd(content, beyond, FirstDigit(cur + 1, LengthPartEnd(cur + 1))))

\* seconds the token at cur lasts on a channel, by the rule of C17
ResolvedSeconds(state) ==
    NoteSeconds(state.tempo,
                IF WrittenLength # 0 THEN WrittenLength ELSE state.default_length,
                IF WrittenLength # 0 \/ WrittenDots(cur + 1, LengthPartEnd(cur + 1)) # 0
                THEN WrittenDots(cur + 1, LengthPartEnd(cur + 1))
                ELSE state.default_length_dot)

RatLeq(x, y) ==
    \/ x.n \div x.d < y.n \div y.d
    \/ /\ x.n \div x.d = y.n \div y.d
       /\ (x.n % x.d) * (y.d \div GCD(x.d, y.d)) <= (y.n % y.d) * (x.d \div GCD(x.d, y.d))

\* C18: no step of a call lowers the running seconds or the time units of a
\* channel that was set up.  (First call of mml_compile.)
C18_AccumulatorsMonotone ==
    [][calls = 1 /\ calls' = 1
         => \A i \in initialized \cap initialized' :
               /\ mml_channel_states'[i + 1].time_units >= mml_channel_states[i + 1].time_units
               /\ RatLeq(mml_channel_states[i + 1].seconds,
                         mml_channel_states'[i + 1].seconds)]_vars

\* C19: the tempo and the default length of every channel that was set up
\* are at least 1; t0, l0 and a note length 0 are reported and leave the
\* channel records as they are; and no note divides by a tempo or a length
\* of zero: the tempo of every channel it is set on is at least 1 and the
\* running seconds stay finite.  (First call of mml_compile.)
C19_NoDivisionByZero ==
    /\ [](calls = 1 => \A i \in initialized :
                          /\ mml_channel_states[i + 1].tempo >= 1
                          /\ mml_channel_states[i + 1].default_length >= 1)
    /\ [][(/\ pc = "scan" /\ calls = 1
           /\ code \in {Asc("t"), Asc("l")} \/ (code >= Asc("a") /\ code <= Asc("g"))
           /\ IsDigit(Mem(content, beyond, cur + 1)) /\ Argument = 0)
            => /\ pc' = "returned"
               /\ reports' = <<IF code = Asc("t") THEN "Invalid tempo" ELSE "Invalid length">>
               /\ mml_channel_states' = mml_channel_states
               /\ frame_map' = frame_map]_vars
    /\ [][(pc = "scan" /\ calls = 1 /\ IsNoteEntry(code))
            => \A i \in Active(Table) :
                  mml_channel_states'[i + 1] # mml_channel_states[i + 1]
                    => /\ mml_channel_states[i + 1].tempo >= 1
                       /\ ~IsInf(mml_channel_states'[i + 1].seconds)]_vars

\* C20: every call of mml_compile starts its scan with a channel table of
\* channel 0 alone, set up with the default values and lying inside the block
\* the call allocated, and with an empty frame map.
C20_CallsIndependent ==
    [][calls' = calls + 1
         => /\ mml_channel_count' = 1
            /\ states_alloc' >= mml_channel_count'
            /\ initialized' = {0}
            /\ HasDefaults(mml_channel_states'[1])
            /\ frame_map' = EmptyMap]_vars

=============================================================================
